---- MODULE Spec2Model ----
(***************************************************************************)
(* Model of src/New_insurance.py: the InsurancePredictor scoring engine    *)
(* (get_bmi_category, get_cost_level, predict_insurance_cost, predict),    *)
(* the input form (create_input_form), the record log (save_prediction)    *)
(* and the Streamlit script body (main), which Streamlit re-executes from  *)
(* the top on every widget interaction.                                    *)
(*                                                                         *)
(* Units.  A bmi is an integer number of 0.0001 kg/m^2 (16.0 is 160000),   *)
(* so that the spec's boundary neighbours 15.9999, 18.4999, 25.0001 and    *)
(* 30.0001 are values of the model.  A raw total is an integer number of   *)
(* dollars (every term of the sum is an integer).  A predicted cost, the   *)
(* value after round(total_cost, 2), is an integer number of cents.  A     *)
(* jitter factor is a rational <<num, den>>.  Arithmetic is exact; the     *)
(* code's binary floating point is not modelled.                           *)
(***************************************************************************)
EXTENDS Integers, Sequences, FiniteSets, TLC

VARIABLES
    quick,        \* values of the six "Quick Estimate" widgets (session state)
    detailed,     \* values of the six "Detailed Underwriting" widgets
    input_data,   \* input_data of the last run of main / argument of the last predict
    results,      \* results of the last predict, NoResult when none was computed
    jitter,       \* what random.uniform(0.9, 1.1) returned in the last predict
    save_button,  \* whether the last run of main rendered "Save This Quote"
    messages,     \* st.success / st.error messages of the last run or call
    exception,    \* the exception that propagated out of the last call, or "none"
    event,        \* the last user interaction or direct call
    data_dir,     \* whether the directory data/ exists
    csv,          \* data/insurance_predictions.csv: [exists, rows]
    clock,        \* datetime.now(), in seconds
    saves,        \* number of calls of save_prediction so far
    written,      \* history: the rows of the saves that succeeded, in call order
    save_failed,  \* history: whether some save has failed so far
    call          \* the last direct call of a classifier: [fn, arg, ret]

vars == <<quick, detailed, input_data, results, jitter, save_button, messages,
          exception, event, data_dir, csv, clock, saves, written, save_failed, call>>

(***************************************************************************)
(* Bounds of the model.                                                    *)
(***************************************************************************)
MaxSaves == 3
MaxClock == 2

NoResult == [none |-> TRUE]
NoInput == [none |-> TRUE]
NoCall == [fn |-> "none"]

(***************************************************************************)
(* InsurancePredictor.get_bmi_category                                     *)
(***************************************************************************)
get_bmi_category_le16(bmi) ==
    IF bmi <= 160000 THEN
        [category |-> "Critical Underweight", emoji |-> "red",
         note |-> "Application may be rejected", factor |-> 4000]
    ELSE IF bmi < 185000 THEN
        [category |-> "Underweight", emoji |-> "orange",
         note |-> "High risk - may affect premium", factor |-> 1500]
    ELSE IF bmi <= 250000 THEN
        [category |-> "Healthy", emoji |-> "green",
         note |-> "Optimal range - lowest risk", factor |-> 0]
    ELSE IF bmi <= 300000 THEN
        [category |-> "Overweight", emoji |-> "yellow",
         note |-> "Moderate risk", factor |-> 800]
    ELSE
        [category |-> "Obese", emoji |-> "red",
         note |-> "High risk - significant premium impact", factor |-> 2500]

get_bmi_category(bmi) ==
    IF bmi < 160000 THEN
        [category |-> "Critical Underweight", emoji |-> "red",
         note |-> "Application may be rejected", factor |-> 4000]
    ELSE IF bmi < 185000 THEN
        [category |-> "Underweight", emoji |-> "orange",
         note |-> "High risk - may affect premium", factor |-> 1500]
    ELSE IF bmi <= 250000 THEN
        [category |-> "Healthy", emoji |-> "green",
         note |-> "Optimal range - lowest risk", factor |-> 0]
    ELSE IF bmi <= 300000 THEN
        [category |-> "Overweight", emoji |-> "yellow",
         note |-> "Moderate risk", factor |-> 800]
    ELSE
        [category |-> "Obese", emoji |-> "red",
         note |-> "High risk - significant premium impact", factor |-> 2500]

(***************************************************************************)
(* InsurancePredictor.get_cost_level, the cost in cents                    *)
(***************************************************************************)
get_cost_level_le(cost) ==
    IF cost <= 500000 THEN
        [level |-> "Low", emoji |-> "green", class |-> "cost-low",
         recommendation |-> "Affordable insurance range. Good health profile."]
    ELSE IF cost <= 1000000 THEN
        [level |-> "Medium", emoji |-> "yellow", class |-> "cost-medium",
         recommendation |-> "Moderate insurance cost. Consider lifestyle improvements."]
    ELSE IF cost <= 1500000 THEN
        [level |-> "High", emoji |-> "orange", class |-> "cost-high",
         recommendation |-> "High insurance cost. Recommended to review health factors."]
    ELSE
        [level |-> "Very High", emoji |-> "red", class |-> "cost-high",
         recommendation |-> "Very high insurance cost. Immediate health review recommended."]

get_cost_level(cost) ==
    IF cost < 500000 THEN
        [level |-> "Low", emoji |-> "green", class |-> "cost-low",
         recommendation |-> "Affordable insurance range. Good health profile."]
    ELSE IF cost < 1000000 THEN
        [level |-> "Medium", emoji |-> "yellow", class |-> "cost-medium",
         recommendation |-> "Moderate insurance cost. Consider lifestyle improvements."]
    ELSE IF cost < 1500000 THEN
        [level |-> "High", emoji |-> "orange", class |-> "cost-high",
         recommendation |-> "High insurance cost. Recommended to review health factors."]
    ELSE
        [level |-> "Very High", emoji |-> "red", class |-> "cost-high",
         recommendation |-> "Very high insurance cost. Immediate health review recommended."]

(***************************************************************************)
(* InsurancePredictor.predict_insurance_cost                               *)
(***************************************************************************)
base_cost == 2000

region_factors_no_southwest == (0 :> 0) @@ (1 :> -200) @@ (2 :> 400)

region_factors_swapped == (0 :> 0) @@ (1 :> 400) @@ (2 :> -200) @@ (3 :> 150)

\* the dict region_factors; a key outside its domain raises KeyError
region_factors == (0 :> 0) @@ (1 :> -200) @@ (2 :> 400) @@ (3 :> 150)

\* the values random.uniform(0.9, 1.1) is sampled at: both end points, 1.0,
\* factors whose product with a raw total is not a whole number of cents
\* (20/21) and factors that make it a tie of the rounding (15/16 of 6250
\* dollars is 585937.5 cents)
variation_up_to_1p2 ==
    {<<9, 10>>, <<15, 16>>, <<20, 21>>, <<1, 1>>, <<17, 16>>, <<11, 10>>, <<6, 5>>}

variation ==
    {<<9, 10>>, <<15, 16>>, <<20, 21>>, <<1, 1>>, <<17, 16>>, <<11, 10>>}

\* round(x, 0) of the rational x = n/d, d > 0: to the nearest integer, a tie
\* to the even one (Python 3's round)
RoundHalfEven(n, d) ==
    LET q == n \div d
        r == n % d
    IN  IF 2 * r < d THEN q
        ELSE IF 2 * r > d THEN q + 1
        ELSE IF q % 2 = 0 THEN q ELSE q + 1

\* round(x, 2) of the rational x = n/d dollars, in cents
round2(n, d) == RoundHalfEven(100 * n, d)

Raise(e) == [raised |-> TRUE, error |-> e]
Return(v) == [raised |-> FALSE, value |-> v]

\* lines 156-192: the sum of the seven terms, before the jitter
raw_total(input_data_, region_factor) ==
    LET age_factor == input_data_.age * 100
        bmi_factor == get_bmi_category(input_data_.bmi).factor
        smoker_factor == IF input_data_.smoker = 1 THEN 8500 ELSE 0
        children_factor == input_data_.children * 600
        gender_factor == IF input_data_.sex = 1 THEN 200 ELSE 0
    IN  base_cost + age_factor + bmi_factor + smoker_factor + children_factor
            + region_factor + gender_factor

predict_insurance_cost_get_default(input_data_, v) ==
    LET b == get_bmi_category(input_data_.bmi)
        region_factor == IF input_data_.region \in DOMAIN region_factors
                         THEN region_factors[input_data_.region] ELSE 0
        total_cost == raw_total(input_data_, region_factor)
    IN  Return([cost |-> round2(total_cost * v[1], v[2]),
                bmi_category |-> b.category, bmi_emoji |-> b.emoji,
                bmi_note |-> b.note])

predict_insurance_cost(input_data_, v) ==
    LET b == get_bmi_category(input_data_.bmi)
    IN  IF input_data_.region \notin DOMAIN region_factors
        THEN Raise("KeyError")
        ELSE LET total_cost == raw_total(input_data_, region_factors[input_data_.region])
             IN  Return([cost |-> round2(total_cost * v[1], v[2]),
                         bmi_category |-> b.category, bmi_emoji |-> b.emoji,
                         bmi_note |-> b.note])

(***************************************************************************)
(* InsurancePredictor.predict                                              *)
(***************************************************************************)
predict_level_of_raw_total(input_data_, v) ==
    LET r == predict_insurance_cost(input_data_, v)
    IN  IF r.raised
        THEN [success |-> FALSE, error |-> r.error]
        ELSE LET c == get_cost_level(
                          predict_insurance_cost(input_data_, <<1, 1>>).value.cost)
             IN  [predicted_cost |-> r.value.cost,
                  cost_level |-> c.level,
                  cost_emoji |-> c.emoji,
                  cost_class |-> c.class,
                  recommendation |-> c.recommendation,
                  bmi_category |-> r.value.bmi_category,
                  bmi_emoji |-> r.value.bmi_emoji,
                  bmi_note |-> r.value.bmi_note,
                  method |-> "Advanced Insurance Underwriting System",
                  success |-> TRUE]

predict(input_data_, v) ==
    LET r == predict_insurance_cost(input_data_, v)
    IN  IF r.raised
        THEN [success |-> FALSE, error |-> r.error]
        ELSE LET c == get_cost_level(r.value.cost)
             IN  [predicted_cost |-> r.value.cost,
                  cost_level |-> c.level,
                  cost_emoji |-> c.emoji,
                  cost_class |-> c.class,
                  recommendation |-> c.recommendation,
                  bmi_category |-> r.value.bmi_category,
                  bmi_emoji |-> r.value.bmi_emoji,
                  bmi_note |-> r.value.bmi_note,
                  method |-> "Advanced Insurance Underwriting System",
                  success |-> TRUE]

(***************************************************************************)
(* create_feature_input and create_input_form                              *)
(***************************************************************************)
\* int(option_key): the keys of a select's options are the strings "0".."3"
int(option_key) ==
    CASE option_key = "0" -> 0
      [] option_key = "1" -> 1
      [] option_key = "2" -> 2
      [] option_key = "3" -> 3

\* the value create_feature_input returns for the widget value w: the number
\* of an st.number_input, int(option_key) of an st.selectbox
create_feature_input(type, w) ==
    IF type = "number" THEN w ELSE int(w)

create_input_form_sex_from_tab1(detailed_, quick_) ==
    LET tab1 == [age |-> create_feature_input("number", detailed_.age),
                 bmi |-> create_feature_input("number", detailed_.bmi),
                 children |-> create_feature_input("number", detailed_.children),
                 sex |-> create_feature_input("select", detailed_.sex),
                 smoker |-> create_feature_input("select", detailed_.smoker),
                 region |-> create_feature_input("select", detailed_.region)]
    IN  [tab1 EXCEPT !.age = quick_.age,
                     !.bmi = quick_.bmi,
                     !.smoker = quick_.smoker,
                     !.children = quick_.children,
                     !.region = quick_.region]

\* input_data after "with tab1:" (lines 343-357), then every key assigned
\* again under "with tab2:" (lines 359-381); both blocks run on every call
create_input_form(detailed_, quick_) ==
    LET tab1 == [age |-> create_feature_input("number", detailed_.age),
                 bmi |-> create_feature_input("number", detailed_.bmi),
                 children |-> create_feature_input("number", detailed_.children),
                 sex |-> create_feature_input("select", detailed_.sex),
                 smoker |-> create_feature_input("select", detailed_.smoker),
                 region |-> create_feature_input("select", detailed_.region)]
    IN  [tab1 EXCEPT !.age = quick_.age,
                     !.bmi = quick_.bmi,
                     !.smoker = quick_.smoker,
                     !.sex = quick_.sex,
                     !.children = quick_.children,
                     !.region = quick_.region]

(***************************************************************************)
(* display_results: the messages it shows                                  *)
(***************************************************************************)
display_results(results_) ==
    IF ~results_.success THEN {"Prediction failed"} ELSE {}

(***************************************************************************)
(* display_cost_breakdown: the subtotal it shows                           *)
(***************************************************************************)
\* Python's list[i] on the sequence list: a negative index counts from the
\* end, an index outside -len..len-1 raises IndexError
list_index(list, i) ==
    IF 0 <= i /\ i < Len(list) THEN Return(list[i + 1])
    ELSE IF -Len(list) <= i /\ i < 0 THEN Return(list[Len(list) + i + 1])
    ELSE Raise("IndexError")

\* lines 458-462: total_components, the sum of the costs that are not 0, in
\* the order of the dict factors
RECURSIVE total_components(_)
total_components(costs) ==
    IF costs = <<>> THEN 0
    ELSE (IF Head(costs) # 0 THEN Head(costs) ELSE 0) + total_components(Tail(costs))

display_cost_breakdown_region_abs(input_data_, predicted_cost, bmi_factor) ==
    LET regional == list_index(<<0, 200, 400, 150>>, input_data_.region)
    IN  IF regional.raised THEN regional
        ELSE Return([subtotal |-> total_components(
                         <<2000,
                           input_data_.age * 100,
                           bmi_factor,
                           IF input_data_.smoker = 1 THEN 8500 ELSE 0,
                           input_data_.children * 600,
                           regional.value,
                           IF input_data_.sex = 1 THEN 200 ELSE 0>>),
                     final |-> predicted_cost])

display_cost_breakdown(input_data_, predicted_cost, bmi_factor) ==
    LET regional == list_index(<<0, -200, 400, 150>>, input_data_.region)
    IN  IF regional.raised THEN regional
        ELSE Return([subtotal |-> total_components(
                         <<2000,
                           input_data_.age * 100,
                           bmi_factor,
                           IF input_data_.smoker = 1 THEN 8500 ELSE 0,
                           input_data_.children * 600,
                           regional.value,
                           IF input_data_.sex = 1 THEN 200 ELSE 0>>),
                     final |-> predicted_cost])

\* display_results, lines 480-512: nothing but the error for a failed result,
\* else the breakdown with the BMI factor of get_bmi_category
display_results_breakdown(results_, input_data_) ==
    IF ~results_.success THEN Return([failed |-> TRUE])
    ELSE display_cost_breakdown(input_data_, results_.predicted_cost,
                                get_bmi_category(input_data_.bmi).factor)

(***************************************************************************)
(* save_prediction.  fault is the step the environment makes fail:         *)
(* "makedirs" (os.makedirs raises), "open" (to_csv raises before the file  *)
(* is opened), "write" (to_csv raises after opening the file for append,   *)
(* which creates it, and before writing), or "none".                       *)
(***************************************************************************)
HeaderRow ==
    [header |-> <<"timestamp", "age", "bmi", "children", "sex", "smoker", "region",
                  "predicted_cost", "cost_level", "bmi_category", "method">>]

\* the row save_data; a failed result has no key 'predicted_cost' (KeyError)
save_data(input_data_, results_, now) ==
    [timestamp |-> now,
     age |-> input_data_.age, bmi |-> input_data_.bmi,
     children |-> input_data_.children, sex |-> input_data_.sex,
     smoker |-> input_data_.smoker, region |-> input_data_.region,
     predicted_cost |-> results_.predicted_cost,
     cost_level |-> results_.cost_level,
     bmi_category |-> results_.bmi_category,
     method |-> results_.method]

\* lines 555-562: os.makedirs, then df.to_csv(file_path, mode='a', header=header)
to_csv(row, header, fault, dir, file) ==
    IF fault = "makedirs" THEN [raised |-> "OSError", data_dir |-> dir, csv |-> file]
    ELSE IF fault = "open" THEN [raised |-> "OSError", data_dir |-> TRUE, csv |-> file]
    ELSE IF fault = "write"
    THEN [raised |-> "OSError", data_dir |-> TRUE,
          csv |-> [exists |-> TRUE, rows |-> file.rows]]
    ELSE [raised |-> "none", data_dir |-> TRUE,
          csv |-> [exists |-> TRUE,
                   rows |-> file.rows \o (IF header THEN <<HeaderRow>> ELSE <<>>)
                                      \o <<row>>]]

\* the body of the try block, lines 542-562
try_body(input_data_, results_, now, header, fault, dir, file) ==
    IF "predicted_cost" \notin DOMAIN results_
    THEN [raised |-> "KeyError", data_dir |-> dir, csv |-> file]
    ELSE to_csv(save_data(input_data_, results_, now), header, fault, dir, file)

save_prediction_header_always(input_data_, results_, now, fault, dir, file) ==
    LET o == try_body(input_data_, results_, now, TRUE, fault, dir, file)
    IN  IF o.raised = "none"
        THEN [exception |-> "none", messages |-> {"Insurance quote saved to records!"},
              data_dir |-> o.data_dir, csv |-> o.csv]
        ELSE [exception |-> "none", messages |-> {"Error saving prediction"},
              data_dir |-> o.data_dir, csv |-> o.csv]

save_prediction_except_KeyError(input_data_, results_, now, fault, dir, file) ==
    LET o == try_body(input_data_, results_, now, ~file.exists, fault, dir, file)
    IN  IF o.raised = "none"
        THEN [exception |-> "none", messages |-> {"Insurance quote saved to records!"},
              data_dir |-> o.data_dir, csv |-> o.csv]
        ELSE IF o.raised = "KeyError"
        THEN [exception |-> "none", messages |-> {"Error saving prediction"},
              data_dir |-> o.data_dir, csv |-> o.csv]
        ELSE [exception |-> o.raised, messages |-> {},
              data_dir |-> o.data_dir, csv |-> o.csv]

\* header = not os.path.exists(file_path); "except Exception" catches every
\* failure of the body and reports it with st.error
save_prediction(input_data_, results_, now, fault, dir, file) ==
    LET o == try_body(input_data_, results_, now, ~file.exists, fault, dir, file)
    IN  IF o.raised = "none"
        THEN [exception |-> "none", messages |-> {"Insurance quote saved to records!"},
              data_dir |-> o.data_dir, csv |-> o.csv]
        ELSE [exception |-> "none", messages |-> {"Error saving prediction"},
              data_dir |-> o.data_dir, csv |-> o.csv]

Faults == {"none", "makedirs", "open", "write"}

(***************************************************************************)
(* Widget values.  The Quick Estimate sliders and selectboxes (lines       *)
(* 366-381) and the Detailed Underwriting number inputs and selectboxes    *)
(* (lines 350-357, their ranges and option keys from feature_info).        *)
(***************************************************************************)
QuickDomain ==
    [age |-> {18, 35}, bmi |-> {225000, 301000},
     smoker |-> {0, 1}, sex |-> {0, 1}, children |-> {0, 1}, region |-> {0, 3}]

DetailedDomain ==
    [age |-> {35, 60}, bmi |-> {225000, 310000}, children |-> {1, 3},
     sex |-> {"0", "1"}, smoker |-> {"0", "1"}, region |-> {"0", "3"}]

DetailedValues ==
    [age : DetailedDomain.age, bmi : DetailedDomain.bmi,
     children : DetailedDomain.children, sex : DetailedDomain.sex,
     smoker : DetailedDomain.smoker, region : DetailedDomain.region]

QuickDefault ==
    [age |-> 35, bmi |-> 225000, smoker |-> 0, sex |-> 0, children |-> 1, region |-> 0]

DetailedDefault ==
    [age |-> 35, bmi |-> 225000, children |-> 1, sex |-> "0", smoker |-> "0",
     region |-> "0"]

Fields == {"age", "bmi", "smoker", "sex", "children", "region"}

(***************************************************************************)
(* The state after the script's first lines, before any run of main.       *)
(***************************************************************************)
Init ==
    /\ quick = QuickDefault
    /\ detailed = DetailedDefault
    /\ input_data = NoInput
    /\ results = NoResult
    /\ jitter = <<1, 1>>
    /\ save_button = FALSE
    /\ messages = {}
    /\ exception = "none"
    /\ event = "start"
    /\ data_dir = FALSE
    /\ csv = [exists |-> FALSE, rows |-> <<>>]
    /\ clock = 0
    /\ saves = 0
    /\ written = <<>>
    /\ save_failed = FALSE
    /\ call = NoCall

\* one execution of save_prediction at time now, with outcome o: the file
\* system after it, and the history of the saves.  A save fails when the
\* environment makes a step fail or the result has no row to build.
RunSave(o, now, input_data_, results_, fault) ==
    LET failed == (fault # "none") \/ ~results_.success
    IN  /\ data_dir' = o.data_dir
        /\ csv' = o.csv
        /\ clock' = now
        /\ saves' = saves + 1
        /\ written' = IF failed THEN written
                      ELSE Append(written, [timestamp |-> now,
                                            input_data |-> input_data_,
                                            results |-> results_])
        /\ save_failed' = (save_failed \/ failed)

(***************************************************************************)
(* main, one run of the script for the widget values quick' and detailed'. *)
(* trigger is the widget whose interaction started the run: st.button      *)
(* returns True only for the button that was clicked to start this run.    *)
(***************************************************************************)
main(trigger, v, fault, tick) ==
    LET input == create_input_form(detailed', quick')
        predict_clicked == (trigger = "quote")
    IN  /\ input_data' = input
        /\ exception' = "none"
        /\ call' = call
        /\ IF predict_clicked
           THEN LET res == predict(input, v)
                    save_clicked == (trigger = "save")
                IN  /\ results' = res
                    /\ jitter' = v
                    /\ save_button' = TRUE
                    /\ IF save_clicked
                       THEN LET o == save_prediction(input, res, clock + tick, fault,
                                                     data_dir, csv)
                            IN  /\ RunSave(o, clock + tick, input, res, fault)
                                /\ messages' = display_results(res) \cup
                                     (IF o.exception = "none" THEN o.messages
                                      ELSE {"Application error"})
                       ELSE /\ messages' = display_results(res)
                            /\ UNCHANGED <<data_dir, csv, clock, saves, written,
                                           save_failed>>
           ELSE /\ results' = NoResult
                /\ save_button' = FALSE
                /\ messages' = {}
                /\ UNCHANGED <<jitter, data_dir, csv, clock, saves, written,
                               save_failed>>

\* the user moves one Quick Estimate widget
SetQuickWidget ==
    \E f \in Fields : \E x \in QuickDomain[f] :
        /\ x # quick[f]
        /\ quick' = [quick EXCEPT ![f] = x]
        /\ detailed' = detailed
        /\ event' = "widget"
        /\ main("widget", <<1, 1>>, "none", 0)

\* the user changes one Detailed Underwriting widget
SetDetailedWidget ==
    \E f \in Fields : \E x \in DetailedDomain[f] :
        /\ x # detailed[f]
        /\ detailed' = [detailed EXCEPT ![f] = x]
        /\ quick' = quick
        /\ event' = "widget"
        /\ main("widget", <<1, 1>>, "none", 0)

\* the user presses GET INSURANCE QUOTE
ClickQuote ==
    \E v \in variation :
        /\ UNCHANGED <<quick, detailed>>
        /\ event' = "click_quote"
        /\ main("quote", v, "none", 0)

\* the user presses Save This Quote, which is on the page only when the last
\* run rendered it
ClickSave ==
    \E v \in variation : \E fault \in Faults : \E tick \in {0, 1} :
        /\ save_button
        /\ clock + tick <= MaxClock
        /\ UNCHANGED <<quick, detailed>>
        /\ event' = "click_save"
        /\ main("save", v, fault, tick)

Next == SetQuickWidget \/ SetDetailedWidget \/ ClickQuote \/ ClickSave

Spec == Init /\ [][Next]_vars

(***************************************************************************)
(* Direct calls of the classifiers, for the claims about them alone.       *)
(***************************************************************************)
\* every value of the BMI slider (15.0 to 50.0 by 0.1), the neighbours of the
\* band boundaries, and values outside the slider's range
BmiInputs ==
    {150000 + 1000 * k : k \in 0..350}
        \cup {159999, 160001, 184999, 185001, 249999, 250001, 299999, 300001}
        \cup {0, 149999, 500001}

\* costs in cents: every 500 dollars up to 20000, the neighbours of the level
\* boundaries, and a negative cost
CostInputs ==
    {50000 * k : k \in 0..40}
        \cup {499999, 500001, 999999, 1000001, 1499999, 1500001}
        \cup {-100}

UnchangedByCall ==
    UNCHANGED <<quick, detailed, save_button, data_dir, csv, clock, saves, written,
                save_failed>>

Call_get_bmi_category ==
    \E bmi \in BmiInputs :
        /\ call' = [fn |-> "get_bmi_category", arg |-> bmi, ret |-> get_bmi_category(bmi)]
        /\ event' = "get_bmi_category"
        /\ UNCHANGED <<input_data, results, jitter, messages, exception>>
        /\ UnchangedByCall

Call_get_cost_level ==
    \E cost \in CostInputs :
        /\ call' = [fn |-> "get_cost_level", arg |-> cost, ret |-> get_cost_level(cost)]
        /\ event' = "get_cost_level"
        /\ UNCHANGED <<input_data, results, jitter, messages, exception>>
        /\ UnchangedByCall

NextClassify == Call_get_bmi_category \/ Call_get_cost_level

SpecClassify == Init /\ [][NextClassify]_vars

(***************************************************************************)
(* Direct calls of predict, with records in and out of the fields' domains *)
(***************************************************************************)
EngineInputs ==
    [age : {0, 18, 35, 80},
     bmi : {150000, 170000, 225000, 275000, 301000, 500000, 510000},
     children : {-1, 0, 1, 10},
     sex : {0, 1, 2},
     smoker : {0, 1, 2},
     region : {-1, 0, 1, 2, 3, 4}]

\* a caller holds a record and the random source a value, before the call
InitEngine ==
    /\ quick = QuickDefault
    /\ detailed = DetailedDefault
    /\ input_data \in EngineInputs
    /\ results = NoResult
    /\ jitter \in variation
    /\ save_button = FALSE
    /\ messages = {}
    /\ exception = "none"
    /\ event = "ready"
    /\ data_dir = FALSE
    /\ csv = [exists |-> FALSE, rows |-> <<>>]
    /\ clock = 0
    /\ saves = 0
    /\ written = <<>>
    /\ save_failed = FALSE
    /\ call = NoCall

\* results = predictor.predict(input_data), random.uniform returning jitter
EnginePredict ==
    /\ event = "ready"
    /\ results' = predict(input_data, jitter)
    /\ messages' = {}
    /\ exception' = "none"
    /\ event' = "predict"
    /\ UNCHANGED <<input_data, jitter, call>>
    /\ UnchangedByCall

\* display_results(results, input_data, predictor) on the result of the call
EngineDisplay ==
    /\ event = "predict"
    /\ call' = [fn |-> "display_results",
                ret |-> display_results_breakdown(results, input_data)]
    /\ messages' = display_results(results)
    /\ event' = "display_results"
    /\ UNCHANGED <<input_data, results, jitter, exception>>
    /\ UnchangedByCall

NextEngine == EnginePredict \/ EngineDisplay

SpecEngine == InitEngine /\ [][NextEngine]_vars

(***************************************************************************)
(* Direct calls of save_prediction with the result of a predict, under     *)
(* every fault of the file system.                                         *)
(***************************************************************************)
SaveInputs ==
    [age : {35}, bmi : {225000}, children : {1}, sex : {0}, smoker : {0, 1},
     region : {0, 4}]

SaveVariations == {<<9, 10>>, <<11, 10>>}

\* a predict whose result the caller then saves
SavePredict ==
    \E i \in SaveInputs : \E v \in SaveVariations :
        /\ input_data' = i
        /\ results' = predict(i, v)
        /\ jitter' = v
        /\ messages' = {}
        /\ exception' = "none"
        /\ event' = "predict"
        /\ call' = call
        /\ UnchangedByCall

Call_save_prediction ==
    \E fault \in Faults : \E tick \in {0, 1} :
        /\ results # NoResult
        /\ saves < MaxSaves
        /\ clock + tick <= MaxClock
        /\ LET o == save_prediction(input_data, results, clock + tick, fault,
                                    data_dir, csv)
           IN  /\ RunSave(o, clock + tick, input_data, results, fault)
               /\ messages' = o.messages
               /\ exception' = o.exception
        /\ event' = "save_prediction"
        /\ UNCHANGED <<quick, detailed, input_data, results, jitter, save_button, call>>

NextSave == SavePredict \/ Call_save_prediction

SpecSave == Init /\ [][NextSave]_vars

(***************************************************************************)
(* The claims.                                                             *)
(***************************************************************************)
InDomain(i) ==
    /\ i.age \in 18..80
    /\ i.sex \in {0, 1}
    /\ i.bmi \in 150000..500000
    /\ i.children \in 0..10
    /\ i.smoker \in {0, 1}
    /\ i.region \in {0, 1, 2, 3}

\* C1: for every in-domain input and every jitter factor in [0.9, 1.1],
\* predict returns a successful result, never the error outcome, and its
\* predicted_cost is strictly greater than 0.
C1_InDomainPredictSucceedsPositive ==
    (event = "predict" /\ InDomain(input_data)) =>
        /\ results.success
        /\ results.predicted_cost > 0

\* a predict of the cheapest in-domain record at the lowest jitter
C1_Witness ==
    /\ event = "predict"
    /\ input_data = [age |-> 18, bmi |-> 225000, children |-> 0, sex |-> 0,
                     smoker |-> 0, region |-> 1]
    /\ jitter = <<9, 10>>
    /\ results.success
    /\ results.predicted_cost = 324000

\* C2: get_bmi_category maps every bmi to exactly one band with its
\* adjustment: below 16.0 Critical Underweight (+4000); from 16.0 to below
\* 18.5 Underweight (+1500); from 18.5 to 25.0 inclusive Healthy (+0); above
\* 25.0 to 30.0 inclusive Overweight (+800); above 30.0 Obese (+2500); so
\* 16.0, 18.5, 25.0 and 30.0 are Underweight, Healthy, Healthy, Overweight.
C2_BmiBands ==
    call.fn = "get_bmi_category" =>
        LET bmi == call.arg
            got == <<call.ret.category, call.ret.factor>>
        IN  /\ (bmi < 160000) => got = <<"Critical Underweight", 4000>>
            /\ (160000 <= bmi /\ bmi < 185000) => got = <<"Underweight", 1500>>
            /\ (185000 <= bmi /\ bmi <= 250000) => got = <<"Healthy", 0>>
            /\ (250000 < bmi /\ bmi <= 300000) => got = <<"Overweight", 800>>
            /\ (bmi > 300000) => got = <<"Obese", 2500>>
            /\ (bmi = 160000) => call.ret.category = "Underweight"
            /\ (bmi = 185000) => call.ret.category = "Healthy"
            /\ (bmi = 250000) => call.ret.category = "Healthy"
            /\ (bmi = 300000) => call.ret.category = "Overweight"

\* get_bmi_category called at the boundary 16.0
C2_Witness ==
    /\ call.fn = "get_bmi_category"
    /\ call.arg = 160000
    /\ call.ret.category = "Underweight"
    /\ call.ret.factor = 1500

\* C3: get_cost_level maps every cost to exactly one level with
\* left-inclusive bands: below 5000 Low; from 5000 to below 10000 Medium; from
\* 10000 to below 15000 High; 15000 and above Very High; and the
\* recommendation is a function of the level alone.
C3_CostLevels ==
    call.fn = "get_cost_level" =>
        LET cost == call.arg
            level == call.ret.level
        IN  /\ (cost < 500000) => level = "Low"
            /\ (500000 <= cost /\ cost < 1000000) => level = "Medium"
            /\ (1000000 <= cost /\ cost < 1500000) => level = "High"
            /\ (cost >= 1500000) => level = "Very High"
            /\ \A other \in CostInputs :
                   get_cost_level(other).level = level =>
                       get_cost_level(other).recommendation = call.ret.recommendation

\* get_cost_level called at the boundary 5000.00
C3_Witness ==
    /\ call.fn = "get_cost_level"
    /\ call.arg = 500000
    /\ call.ret.level = "Medium"

\* C4: with the jitter factor fixed at 1.0, the predicted cost of every
\* in-domain input is exactly 2000 + age*100 + the bmi adjustment + 8500 for
\* a smoker + children*600 + the region term (0, -200, 400, 150 for regions
\* 0, 1, 2, 3) + 200 for sex = 1; the record {age 35, sex 0, bmi 22.5,
\* children 1, smoker 0, region 0} gives 6100.00 and with smoker = 1, 14600.00.
C4_JitterOneFormula ==
    (event = "predict" /\ jitter = <<1, 1>> /\ InDomain(input_data)) =>
        LET i == input_data
            adjustment == IF i.bmi < 160000 THEN 4000
                          ELSE IF i.bmi < 185000 THEN 1500
                          ELSE IF i.bmi <= 250000 THEN 0
                          ELSE IF i.bmi <= 300000 THEN 800
                          ELSE 2500
            region_term == CASE i.region = 0 -> 0
                             [] i.region = 1 -> -200
                             [] i.region = 2 -> 400
                             [] i.region = 3 -> 150
            dollars == 2000 + i.age * 100 + adjustment
                         + (IF i.smoker = 1 THEN 8500 ELSE 0)
                         + i.children * 600 + region_term
                         + (IF i.sex = 1 THEN 200 ELSE 0)
            example == [age |-> 35, sex |-> 0, bmi |-> 225000, children |-> 1,
                        smoker |-> 0, region |-> 0]
        IN  /\ results.success
            /\ results.predicted_cost = 100 * dollars
            /\ (i = example) => results.predicted_cost = 610000
            /\ (i = [example EXCEPT !.smoker = 1]) => results.predicted_cost = 1460000

\* the spec's smoker example, scored at jitter 1.0
C4_Witness ==
    /\ event = "predict"
    /\ jitter = <<1, 1>>
    /\ input_data = [age |-> 35, sex |-> 0, bmi |-> 225000, children |-> 1,
                     smoker |-> 1, region |-> 0]
    /\ results.predicted_cost = 1460000

\* C5: for every in-domain input, the predicted_cost returned, after the
\* jitter multiplication and the rounding to 2 decimal places, lies in the
\* closed interval [0.9 * raw_total, 1.1 * raw_total], raw_total being the sum
\* of the seven terms for that input.
C5_JitterBounds ==
    (event = "predict" /\ InDomain(input_data)) =>
        LET raw == raw_total(input_data, region_factors[input_data.region])
        IN  /\ results.success
            /\ 90 * raw <= results.predicted_cost
            /\ results.predicted_cost <= 110 * raw

\* a cost that the rounding changed (15/16 of 6250 dollars is 585937.5 cents)
C5_Witness ==
    /\ event = "predict"
    /\ InDomain(input_data)
    /\ jitter = <<15, 16>>
    /\ raw_total(input_data, region_factors[input_data.region]) = 6250
    /\ results.predicted_cost = 585938

\* C6 (as claimed): predict never returns the error outcome, whatever
\* out-of-domain value a field of the record holds.
C6_EngineNeverRejects ==
    event = "predict" => results.success

\* C6 (amended): predict returns the error outcome exactly for the records
\* whose region is not a key of region_factors; out-of-domain values of the
\* other five fields are scored without any check.
C6_RejectsExactlyUnknownRegion ==
    event = "predict" =>
        (results.success <=> input_data.region \in {0, 1, 2, 3})

\* a record with age, bmi, children, sex and smoker all out of domain, scored
C6_Witness ==
    /\ event = "predict"
    /\ input_data.age < 18
    /\ input_data.bmi > 500000
    /\ input_data.children < 0
    /\ input_data.sex = 2
    /\ input_data.smoker = 2
    /\ results.success

\* C7 (as claimed): whenever the user presses Save This Quote (after GET
\* INSURANCE QUOTE), save_prediction runs and appends exactly one row to the
\* record log, and that row carries the predicted_cost, cost_level and
\* bmi_category of the quote that was on the page.
C7_SaveAppendsDisplayedQuote ==
    [][event' = "click_save" =>
          /\ saves' = saves + 1
          /\ Len(csv'.rows) = Len(csv.rows) + (IF csv.exists THEN 1 ELSE 2)
          /\ LET row == csv'.rows[Len(csv'.rows)]
             IN  /\ row.predicted_cost = results.predicted_cost
                 /\ row.cost_level = results.cost_level
                 /\ row.bmi_category = results.bmi_category]_vars

\* C8: starting from a missing log file, after any sequence of successful
\* save_prediction calls the file is exactly one header row, first, followed
\* by one data row per save in call order (so each save leaves the rows
\* written before it as they were).
C8_SingleHeaderRowsInCallOrder ==
    ~save_failed =>
        /\ csv.exists = (written # <<>>)
        /\ Len(csv.rows) = (IF written = <<>> THEN 0 ELSE Len(written) + 1)
        /\ (written # <<>>) => csv.rows[1] = HeaderRow
        /\ \A k \in 1..Len(written) :
               LET row == csv.rows[k + 1]
                   w == written[k]
               IN  /\ row # HeaderRow
                   /\ row.timestamp = w.timestamp
                   /\ \A f \in Fields : row[f] = w.input_data[f]
                   /\ row.predicted_cost = w.results.predicted_cost
                   /\ row.cost_level = w.results.cost_level
                   /\ row.bmi_category = w.results.bmi_category
                   /\ row.method = w.results.method

\* three successful saves, of two different quotes
C8_Witness ==
    /\ ~save_failed
    /\ Len(written) >= 3
    /\ Len(csv.rows) = Len(written) + 1
    /\ written[1].results # written[2].results

\* C9: a failed save is non-fatal: when a step of save_prediction fails
\* (building the row, creating the directory, writing the file), no exception
\* propagates out of it, the error message is shown, the success message is
\* not, and the prediction result is left as it was.
C9_FailedSaveNonFatal ==
    [][(saves' = saves + 1 /\ Len(written') = Len(written)) =>
          /\ exception' = "none"
          /\ "Error saving prediction" \in messages'
          /\ "Insurance quote saved to records!" \notin messages'
          /\ results' = results
          /\ input_data' = input_data]_vars

\* a save of a successful result that failed in the file system
C9_Witness ==
    /\ event = "save_prediction"
    /\ results.success
    /\ save_failed
    /\ written = <<>>
    /\ messages = {"Error saving prediction"}
    /\ exception = "none"

\* C10: the input record create_input_form returns, which main passes to
\* predict, is determined by the Quick Estimate widgets alone: with any other
\* values in the Detailed Underwriting widgets the run has the same
\* input record, in all six fields, and the same result.
C10_InputFromQuickTabOnly ==
    (input_data # NoInput) =>
        \A d \in DetailedValues :
            /\ create_input_form(d, quick) = input_data
            /\ (results # NoResult) =>
                   results = predict(create_input_form(d, quick), jitter)

\* a quote computed while every Detailed Underwriting widget holds a value
\* other than its Quick Estimate counterpart
C10_Witness ==
    /\ event = "click_quote"
    /\ results # NoResult
    /\ detailed.age # quick.age
    /\ detailed.bmi # quick.bmi
    /\ detailed.children # quick.children
    /\ int(detailed.sex) # quick.sex
    /\ int(detailed.smoker) # quick.smoker
    /\ int(detailed.region) # quick.region

\* C11: the cost breakdown agrees with the scoring engine: for every in-domain
\* input, the subtotal that display_cost_breakdown computes (the sum of its
\* non-zero components, the BMI adjustment from get_bmi_category, the region
\* term from the list [0, -200, 400, 150]) equals the raw_total that
\* predict_insurance_cost computes for that input before the jitter.
C11_BreakdownSubtotalIsRawTotal ==
    (event = "display_results" /\ InDomain(input_data)) =>
        /\ ~call.ret.raised
        /\ call.ret.value.subtotal
               = raw_total(input_data, region_factors[input_data.region])
        /\ call.ret.value.final = results.predicted_cost

\* a breakdown with a negative region term and components that are 0, shown
\* next to a premium that the jitter moved away from the subtotal
C11_Witness ==
    /\ event = "display_results"
    /\ input_data = [age |-> 35, bmi |-> 225000, children |-> 0, sex |-> 0,
                     smoker |-> 0, region |-> 1]
    /\ jitter = <<11, 10>>
    /\ call.ret.value.subtotal = 5300
    /\ call.ret.value.final = 583000

\* C12: every successful result of predict is internally consistent: its
\* cost_level and recommendation are the band of get_cost_level at that
\* result's own predicted_cost (the jittered, rounded value, not raw_total),
\* and its bmi_category is get_bmi_category of the input bmi, so that every
\* other call with the same input returns the same bmi_category, whatever
\* its predicted_cost and cost_level are.
C12_ResultInternallyConsistent ==
    (event = "predict" /\ results.success) =>
        LET band == get_cost_level(results.predicted_cost)
        IN  /\ results.cost_level = band.level
            /\ results.recommendation = band.recommendation
            /\ results.bmi_category = get_bmi_category(input_data.bmi).category
            /\ \A v \in variation :
                   LET again == predict(input_data, v)
                   IN  /\ again.success
                       /\ again.bmi_category = results.bmi_category

\* a result whose level is the band of the jittered cost and not that of
\* raw_total, for an input that another call scores at another level
C12_Witness ==
    /\ event = "predict"
    /\ results.success
    /\ InDomain(input_data)
    /\ results.cost_level = "Low"
    /\ get_cost_level(100 * raw_total(input_data, region_factors[input_data.region])).level
           = "Medium"
    /\ \E v \in variation :
           /\ predict(input_data, v).cost_level # results.cost_level
           /\ predict(input_data, v).predicted_cost # results.predicted_cost
           /\ predict(input_data, v).bmi_category = results.bmi_category

====
